---------------------------- MODULE Spec2Model ----------------------------
(***************************************************************************)
(* A model of pagodo's PyQt6 front end (pagodo_gui_pyqt6.py): the dork     *)
(* search worker DorkSearchThread, the window PagodoGUI that starts and    *)
(* stops it and consumes its signals, and the pure helpers both use; and   *)
(* of the configuration checks of the two other front ends, the menu of    *)
(* pagodo_cli.py and the PyQt5 window of pagodo_gui.py.                    *)
(*                                                                         *)
(* Text is modelled as a sequence of one-character strings, so that the    *)
(* substring tests, splits and percent-decoding of the code are computed   *)
(* rather than assumed.  Dorks, proxies and domains, which the code only   *)
(* copies and concatenates, are TLA+ strings.                              *)
(***************************************************************************)
EXTENDS Integers, Sequences, FiniteSets, TLC

(***************************************************************************)
(* Bounds of the model.                                                    *)
(***************************************************************************)
MaxDorks == 2        \* longest dork list loaded
MaxPool == 2         \* largest proxy pool
MaxDelay == 2        \* largest value of the two delay spin boxes
MaxCap == 2          \* largest value of the max-results spin box
MaxRuns == 1         \* searches started in one behaviour
MaxStops == 2        \* clicks on "Stop Search" in one behaviour
MaxLoads == 1        \* dork files loaded in one behaviour
MaxRotationDorks == 5  \* longest dork list of the proxy rotation runs
MaxRotationPool == 3   \* largest proxy pool of the proxy rotation runs
MaxWindowRuns == 2      \* searches started in one behaviour of the window with its scraper
MaxFetches == 1         \* clicks on "Fetch Latest Dorks" in one behaviour
MaxCliRuns == 1         \* runs launched from the CLI menu in one behaviour
MaxRefused == 2         \* requests turned down in one behaviour
MaxAnalyzed == 1        \* database URLs the parameter tab adds in one behaviour
MaxAnswers == 2         \* answers typed at one prompt of the CLI
MaxCliDelay == 2        \* largest delay typed at a prompt of the CLI
MaxQt5Runs == 1         \* runs launched from the PyQt5 window in one behaviour
MaxQt5Workers == 2      \* workers the PyQt5 window starts, one after the other

(***************************************************************************)
(* Program constants: the delays PagodoCLI.__init__ puts in its config.    *)
(***************************************************************************)
DefaultMinimumDelay == 37  \* config["minimum_delay_between_dork_searches_in_seconds"]
DefaultMaximumDelay == 60  \* config["maximum_delay_between_dork_searches_in_seconds"]

(***************************************************************************)
(* Text helpers (Python str methods).                                      *)
(***************************************************************************)
Min2(a, b) == IF a <= b THEN a ELSE b

Max2(a, b) == IF a >= b THEN a ELSE b

\* s.startswith(p)
StartsWith(s, p) == Len(s) >= Len(p) /\ SubSeq(s, 1, Len(p)) = p

\* 1-based index of the first occurrence of p in s at or after i, 0 if none
\* (s.find(p, i-1) + 1)
FindFrom(s, p, i) ==
  LET hits == {j \in i..(Len(s) - Len(p) + 1) : SubSeq(s, j, j + Len(p) - 1) = p}
  IN  IF hits = {} THEN 0 ELSE CHOOSE j \in hits : \A k \in hits : j <= k

\* p in s
Contains(s, p) == FindFrom(s, p, 1) # 0

\* s.split(sep), sep non-empty
RECURSIVE Split(_, _)
Split(s, sep) ==
  LET j == FindFrom(s, sep, 1)
  IN  IF j = 0 THEN <<s>>
      ELSE <<SubSeq(s, 1, j - 1)>> \o Split(SubSeq(s, j + Len(sep), Len(s)), sep)

\* "".join(parts)
RECURSIVE Join(_)
Join(parts) == IF parts = <<>> THEN <<>> ELSE Head(parts) \o Join(Tail(parts))

UpperCase == <<"A","B","C","D","E","F","G","H","I","J","K","L","M",
               "N","O","P","Q","R","S","T","U","V","W","X","Y","Z">>

LowerCase == <<"a","b","c","d","e","f","g","h","i","j","k","l","m",
               "n","o","p","q","r","s","t","u","v","w","x","y","z">>

LowerChar(c) ==
  IF \E i \in 1..26 : UpperCase[i] = c
  THEN LowerCase[CHOOSE i \in 1..26 : UpperCase[i] = c]
  ELSE c

\* s.lower()
Lower(s) == [i \in 1..Len(s) |-> LowerChar(s[i])]

(***************************************************************************)
(* urllib.parse.unquote.  The text is split on "%"; a piece that starts    *)
(* with two hex digits has them replaced by the character they encode,     *)
(* any other piece keeps its "%".  The table holds the codes of the URL    *)
(* delimiters; the page pool below uses no other code.                     *)
(***************************************************************************)
HexCodes ==
  << <<"2", "0", " ">>, <<"2", "3", "#">>, <<"2", "5", "%">>, <<"2", "6", "&">>,
     <<"2", "f", "/">>, <<"3", "a", ":">>, <<"3", "d", "=">>, <<"3", "f", "?">> >>

HexHit(bit) ==
  {i \in 1..Len(HexCodes) :
     Len(bit) >= 2 /\ LowerChar(bit[1]) = HexCodes[i][1]
                   /\ LowerChar(bit[2]) = HexCodes[i][2]}

UnquoteBit(bit) ==
  IF HexHit(bit) # {}
  THEN <<HexCodes[CHOOSE i \in HexHit(bit) : TRUE][3]>> \o SubSeq(bit, 3, Len(bit))
  ELSE <<"%">> \o bit

unquote(s) ==
  LET bits == Split(s, <<"%">>)
  IN  bits[1] \o Join([i \in 1..(Len(bits) - 1) |-> UnquoteBit(bits[i + 1])])

(***************************************************************************)
(* DorkSearchThread.google_search: the URLs of a result page.  A page is   *)
(* the sequence of the href attributes of its anchors in document order    *)
(* ("" for an anchor without href), which is all the code reads of it.     *)
(***************************************************************************)
Wrapper == <<"/","u","r","l","?","q","=">>

\* href.split("/url?q=")[1].split("&")[0], then unquote
WrappedTarget(href) == unquote(Split(Split(href, Wrapper)[2], <<"&">>)[1])

RECURSIVE ExtractUrls(_, _, _)
ExtractUrls(hrefs, urls, max_results) ==
  IF hrefs = <<>> THEN urls
  ELSE LET href == Head(hrefs)
           keep == Contains(href, Wrapper)
                   /\ StartsWith(WrappedTarget(href), <<"h","t","t","p">>)
           urls2 == IF keep THEN Append(urls, WrappedTarget(href)) ELSE urls
       IN  IF keep /\ Len(urls2) >= max_results
           THEN urls2
           ELSE ExtractUrls(Tail(hrefs), urls2, max_results)

\* faulty variant: the body is parsed whatever the status code
google_search_IgnoresStatus(outcome, max_results) ==
  IF outcome.kind = "raise" THEN <<>>
  ELSE ExtractUrls(outcome.body, <<>>, max_results)

\* outcome is what requests.get does: it raises (timeout, connection error),
\* or returns a response with a status code and a body.
google_search(outcome, max_results) ==
  IF outcome.kind = "raise" THEN <<>>
  ELSE IF outcome.status = 200 THEN ExtractUrls(outcome.body, <<>>, max_results)
  ELSE <<>>

(***************************************************************************)
(* ParameterExtractor.                                                     *)
(***************************************************************************)
db_indicators ==
  << <<"p","h","p">>, <<"a","s","p">>, <<"a","s","p","x">>, <<"j","s","p">>,
     <<"i","d","=">>, <<"p","a","g","e","=">>, <<"c","a","t","=">>,
     <<"i","t","e","m","=">>, <<"u","s","e","r","=">>,
     <<"p","r","o","d","u","c","t","=">>, <<"a","r","t","i","c","l","e","=">>,
     <<"v","i","e","w","=">>, <<"c","o","n","t","e","n","t","=">>,
     <<"s","h","o","w","=">> >>

\* faulty variant: only the four script extensions are looked for
is_database_url_ExtensionsOnly(url) ==
  \E i \in 1..4 : Contains(Lower(url), db_indicators[i])

\* faulty variant: the URL is not lower-cased
is_database_url_CaseSensitive(url) ==
  \E i \in 1..Len(db_indicators) : Contains(url, db_indicators[i])

is_database_url(url) ==
  \E i \in 1..Len(db_indicators) : Contains(Lower(url), db_indicators[i])

Digits == {"0","1","2","3","4","5","6","7","8","9"}

Letters == {UpperCase[i] : i \in 1..26} \cup {LowerCase[i] : i \in 1..26}

scheme_chars == Letters \cup Digits \cup {"+", "-", "."}

(***************************************************************************)
(* urllib.parse.urlsplit, one step per operator: the scheme is cut off at  *)
(* the first ":" when what precedes it is a letter followed by scheme      *)
(* characters; after "//" the netloc runs to the first of "/", "?", "#";   *)
(* the fragment is what follows the first "#", the query what follows the  *)
(* first "?" of the rest.  bad is the ValueError raised for a netloc with  *)
(* an unmatched square bracket.                                            *)
(***************************************************************************)
\* s cut at index j, which is left out; j = 0 (not found) keeps s whole
CutAt(s, j) ==
  IF j # 0 THEN [before |-> SubSeq(s, 1, j - 1), after |-> SubSeq(s, j + 1, Len(s))]
  ELSE [before |-> s, after |-> <<>>]

\* s.partition(c) without the separator
Partition(s, c) == CutAt(s, FindFrom(s, <<c>>, 1))

\* index of the first character of s among chars at or after from,
\* Len(s) + 1 if there is none
FirstOf(s, chars, from) ==
  LET hits == {k \in from..Len(s) : s[k] \in chars}
  IN  IF hits = {} THEN Len(s) + 1 ELSE CHOOSE k \in hits : \A m \in hits : k <= m

\* i is the index of the first ":" of url
SchemeAt(url, i) ==
  IF /\ i > 1
     /\ url[1] \in Letters
     /\ \A k \in 1..(i - 1) : url[k] \in scheme_chars
  THEN [scheme |-> Lower(SubSeq(url, 1, i - 1)), rest |-> SubSeq(url, i + 1, Len(url))]
  ELSE [scheme |-> <<>>, rest |-> url]

\* delim is the index at which a netloc of r ends
NetlocAt(r, delim) ==
  IF StartsWith(r, <<"/", "/">>)
  THEN [netloc |-> SubSeq(r, 3, delim - 1), rest |-> SubSeq(r, delim, Len(r))]
  ELSE [netloc |-> <<>>, rest |-> r]

SplitResult(scheme, netloc, pq, fragment) ==
  [bad |-> Contains(netloc, <<"[">>) # Contains(netloc, <<"]">>),
   scheme |-> scheme, netloc |-> netloc, path |-> pq.before,
   query |-> pq.after, fragment |-> fragment]

AfterFragment(scheme, netloc, fr) ==
  SplitResult(scheme, netloc, Partition(fr.before, "?"), fr.after)

AfterNetloc(scheme, nl) == AfterFragment(scheme, nl.netloc, Partition(nl.rest, "#"))

AfterScheme(sch) ==
  AfterNetloc(sch.scheme, NetlocAt(sch.rest, FirstOf(sch.rest, {"/", "?", "#"}, 3)))

urlsplit(url) == AfterScheme(SchemeAt(url, FindFrom(url, <<":">>, 1)))

\* name.replace("+", " "), then unquote
PlusDecode(s) == unquote([k \in 1..Len(s) |-> IF s[k] = "+" THEN " " ELSE s[k]])

\* urllib.parse.parse_qsl with its defaults: pieces between "&", split at
\* the first "="; a piece without "=" or with an empty value is dropped.
RECURSIVE PairsOf(_)
PairsOf(pieces) ==
  IF pieces = <<>> THEN <<>>
  ELSE LET nv == Head(pieces)
           e == FindFrom(nv, <<"=">>, 1)
       IN  IF e # 0 /\ e < Len(nv)
           THEN << <<PlusDecode(SubSeq(nv, 1, e - 1)),
                     PlusDecode(SubSeq(nv, e + 1, Len(nv)))>> >>
                \o PairsOf(Tail(pieces))
           ELSE PairsOf(Tail(pieces))

parse_qsl(qs) == IF qs = <<>> THEN <<>> ELSE PairsOf(Split(qs, <<"&">>))

\* urllib.parse.parse_qs: the values of each name, names in order of first
\* occurrence; then flat_params: a single value is kept as a scalar.
ValuesOf(pairs, name) ==
  LET idx == {k \in 1..Len(pairs) : pairs[k][1] = name}
      RECURSIVE Pick(_)
      Pick(k) == IF k > Len(pairs) THEN <<>>
                 ELSE (IF k \in idx THEN <<pairs[k][2]>> ELSE <<>>) \o Pick(k + 1)
  IN  Pick(1)

RECURSIVE FlatParams(_, _)
FlatParams(pairs, k) ==
  IF k > Len(pairs) THEN <<>>
  ELSE IF \E m \in 1..(k - 1) : pairs[m][1] = pairs[k][1]
       THEN FlatParams(pairs, k + 1)
       ELSE LET vals == ValuesOf(pairs, pairs[k][1])
            IN  <<[key |-> pairs[k][1], scalar |-> (Len(vals) = 1), value |-> vals]>>
                \o FlatParams(pairs, k + 1)

\* ParameterExtractor.extract_parameters(url); "parameters" is the ordered
\* mapping as a sequence of [key, scalar, value] (value holds the list; a
\* scalar is its only element).  parsed is urlparse(url).
ParsedRecord(url, parsed) ==
  IF parsed.bad THEN [error |-> TRUE, url |-> url]
  ELSE [error |-> FALSE, url |-> url, scheme |-> parsed.scheme,
        domain |-> parsed.netloc, path |-> parsed.path,
        parameters |-> FlatParams(parse_qsl(parsed.query), 1),
        fragment |-> parsed.fragment]

extract_parameters(url) == ParsedRecord(url, urlsplit(url))

\* record.get("parameters", {})
GetParameters(record) == IF record.error THEN <<>> ELSE record.parameters

\* extract_parameters(url).get("parameters", {})
ParametersOf(url) == GetParameters(extract_parameters(url))

\* extract_sql_patterns: patterns, each a parameter name followed by =\d+
patterns ==
  << <<"i","d","=","\\","d","+">>,
     <<"p","a","g","e","=","\\","d","+">>,
     <<"c","a","t","=","\\","d","+">>,
     <<"i","t","e","m","=","\\","d","+">>,
     <<"a","r","t","i","c","l","e","=","\\","d","+">>,
     <<"p","r","o","d","u","c","t","=","\\","d","+">> >>

\* the literal text a pattern begins with: the pattern without its \d+
LiteralOf(pattern) == SubSeq(pattern, 1, Len(pattern) - 3)

\* faulty variant: the digits are not asked for
re_search_NoDigits(pattern, url) == Contains(url, LiteralOf(pattern))

\* re.search(pattern, url): the literal occurs in url followed by a digit
re_search(pattern, url) ==
  \E j \in 1..(Len(url) - Len(LiteralOf(pattern))) :
    /\ SubSeq(url, j, j + Len(LiteralOf(pattern)) - 1) = LiteralOf(pattern)
    /\ url[j + Len(LiteralOf(pattern))] \in Digits

\* [pattern for pattern in patterns if re.search(pattern, url)]
RECURSIVE Matching(_, _)
Matching(ps, url) ==
  IF ps = <<>> THEN <<>>
  ELSE (IF re_search(Head(ps), url) THEN <<Head(ps)>> ELSE <<>>)
       \o Matching(Tail(ps), url)

extract_sql_patterns(url) == Matching(patterns, url)

(***************************************************************************)
(* Inputs: what the user loads and types, and what the network answers.    *)
(***************************************************************************)
Dorks == {"d1", "d2"}

\* the non-empty stripped lines of a dork file
DorkLists == UNION {[1..n -> Dorks] : n \in 0..MaxDorks}

\* the non-empty stripped lines of the proxy text box
ProxyPool(m) == [i \in 1..m |-> "proxy" \o ToString(i)]

ProxyPools == {ProxyPool(m) : m \in 0..MaxPool}

\* QSpinBox ranges: min delay 1..60, max delay 1..120
MinDelays == 1..Min2(MaxDelay, 60)

MaxDelays == 1..Min2(MaxDelay, 120)

PageEmpty == <<>>

PageResults ==
  << <<"/","s","e","a","r","c","h","?","q","=","n","e","x","t">>,
     <<"/","u","r","l","?","q","=","h","t","t","p",":","/","/","x","/","a",
       "%","3","F","i","d","%","3","D","5","&","s","a","=","U">>,
     <<"/","u","r","l","?","q","=","/","s","e","t","t","i","n","g","s">>,
     <<"/","u","r","l","?","q","=","h","t","t","p",":","/","/","x","/","b",
       "&","s","a","=","U">> >>

Pages == {PageEmpty, PageResults}

\* requests.get raises, or returns a response
Outcomes ==
  {[kind |-> "raise", status |-> 0, body |-> PageEmpty]}
  \cup {[kind |-> "response", status |-> 200, body |-> b] : b \in Pages}
  \cup {[kind |-> "response", status |-> 429, body |-> b] : b \in Pages}

TransportFailure(outcome) == outcome.kind = "raise" \/ outcome.status # 200

(***************************************************************************)
(* State.                                                                  *)
(***************************************************************************)
VARIABLES
  dorks,             \* PagodoGUI.dorks
  search_results,    \* PagodoGUI.search_results
  database_urls,     \* PagodoGUI.database_urls
  start_search_btn,  \* enabled state of the three buttons
  stop_search_btn,
  fetch_dorks_btn,
  search_thread,     \* PagodoGUI.search_thread: index into threads, 0 before the first search
  loads,             \* dork files loaded so far
  threads,           \* the DorkSearchThread objects, in order of creation
  queue,             \* signals emitted by the workers, not yet delivered to the window
  hist,              \* per thread: what it has done so far (history, read by no action)
  scrapers,          \* the DorkScraperThread objects, in order of creation
  cli,               \* pagodo_cli.PagodoCLI: its config and the runs it launched
  qt5,               \* pagodo_gui.PagodoGUI (PyQt5): its thread and the runs it launched
  refused,           \* the requests a front end turned down with a message, in order
  param_results      \* what the parameter tab shows: the last analysis, if any

vars == <<dorks, search_results, database_urls, start_search_btn, stop_search_btn,
          fetch_dorks_btn, search_thread, loads, threads, queue, hist,
          scrapers, cli, qt5, refused, param_results>>

\* the two other front ends
front_ends == <<cli, qt5>>

\* the attributes and buttons of the PyQt6 window
window_vars == <<dorks, search_results, database_urls, start_search_btn,
                 stop_search_btn, fetch_dorks_btn, search_thread, loads, scrapers,
                 param_results>>

\* what no worker thread touches
gui_vars == <<window_vars, refused, front_ends>>

Runs == 1..Len(threads)

NoStop == [idx |-> -1, pc |-> "none", results |-> -1, remaining |-> -1]

NewHist ==
  [emitted |-> <<>>,      \* the signals emitted, in order
   requests |-> <<>>,     \* the requests issued: [query, proxy, num]
   failed |-> {},         \* the 0-based queries whose fetch was a transport failure
   pages |-> <<>>,        \* the body of each page fetched, empty for a failed fetch
   stops |-> 0,           \* calls of stop()
   stopAt |-> NoStop,     \* where the run was at the first stop()
   sleeps |-> 0,          \* delays slept to their end
   overslept |-> 0,       \* time slept after a stop() that arrived during a delay
   faulted |-> FALSE]     \* an exception reached the handler of run()

\* PagodoCLI.__init__: the configuration the menu edits (the file, the two
\* delays), and, as history, the configurations run_pagodo passed to Pagodo
PagodoCLI ==
  [google_dorks_file |-> "None",
   minimum_delay |-> DefaultMinimumDelay,
   maximum_delay |-> DefaultMaximumDelay,
   launched |-> <<>>]

\* pagodo_gui.PagodoGUI.__init__: no thread yet, and, as history, the
\* configurations start_search gave to a PagodoWorker, the kind of every
\* worker started, the signal each worker emitted, and the handlers run
Qt5Window ==
  [running |-> FALSE,        \* self.thread is set and self.thread.isRunning()
   busy |-> FALSE,           \* set_busy_state: the two buttons are disabled
   worker |-> "none",        \* "run" while the worker's run executes, then "returned"
   slot_pending |-> FALSE,   \* the worker's signal has not reached its handler yet
   quit_pending |-> FALSE,   \* the worker's signal has not reached thread.quit yet
   deleted |-> FALSE,        \* thread.deleteLater has destroyed what self.thread names
   launched |-> <<>>,
   started |-> <<>>,
   signals |-> <<>>,
   handled |-> <<>>]

\* PagodoGUI.__init__ and create_main_tab
Init ==
  /\ dorks = <<>>
  /\ search_results = <<>>
  /\ database_urls = <<>>
  /\ start_search_btn = FALSE
  /\ stop_search_btn = FALSE
  /\ fetch_dorks_btn = TRUE
  /\ search_thread = 0
  /\ loads = 0
  /\ threads = <<>>
  /\ queue = <<>>
  /\ hist = <<>>
  /\ scrapers = <<>>
  /\ cli = PagodoCLI
  /\ qt5 = Qt5Window
  /\ refused = <<>>
  /\ param_results = <<>>

(***************************************************************************)
(* DorkSearchThread.  A thread object is a record of its attributes and    *)
(* of the position and local variables of run():                           *)
(*   pc = "loop"   at the head of the for loop, before the running check   *)
(*   pc = "fetch"  inside google_search, the request in flight             *)
(*   pc = "sleep"  inside time.sleep, remaining time units still to sleep  *)
(*   pc = "done"   run() has returned                                      *)
(* idx is the 0-based index of enumerate.                                  *)
(***************************************************************************)
\* faulty variant: the flag of the run before is taken over
NewThread_KeepsFlag(ds, domain, proxies, max_results, min_delay, max_delay) ==
  [dorks |-> ds, domain |-> domain, proxies |-> proxies,
   max_results |-> max_results, min_delay |-> min_delay, max_delay |-> max_delay,
   running |-> IF threads = <<>> THEN TRUE ELSE threads[Len(threads)].running,
   pc |-> "loop", idx |-> 0, proxy_index |-> 0,
   query |-> "", proxy |-> "None", delay |-> 0, remaining |-> 0]

\* DorkSearchThread.__init__ followed by the first two statements of run()
NewThread(ds, domain, proxies, max_results, min_delay, max_delay) ==
  [dorks |-> ds, domain |-> domain, proxies |-> proxies,
   max_results |-> max_results, min_delay |-> min_delay, max_delay |-> max_delay,
   running |-> TRUE,
   pc |-> "loop", idx |-> 0, proxy_index |-> 0,
   query |-> "", proxy |-> "None", delay |-> 0, remaining |-> 0]

\* faulty variant: the list is walked from its end
DorkAt_Reversed(th) == th.dorks[Len(th.dorks) - th.idx]

\* the dork of iteration idx of enumerate(self.dorks)
DorkAt(th) == th.dorks[th.idx + 1]

\* faulty variant: the loop ends one dork early
Iterates_SkipsLast(th) == th.idx + 1 < Len(th.dorks) /\ th.running

\* faulty variant: the running flag is not looked at
Iterates_IgnoresStop(th) == th.idx < Len(th.dorks)

\* for ... in enumerate(self.dorks): if not self.running: break
Iterates(th) == th.idx < Len(th.dorks) /\ th.running

\* faulty variant: the domain is not appended
QueryOf_NoScope(th) == DorkAt(th)

\* query = f"{dork} site:{self.domain}" if self.domain else dork
QueryOf(th) ==
  IF th.domain # "" THEN DorkAt(th) \o " site:" \o th.domain ELSE DorkAt(th)

\* faulty variant: the first proxy is used for every query
ProxyOf_NoRotation(th) == IF th.proxies # <<>> THEN th.proxies[1] ELSE "None"

\* proxy = None; if self.proxies: proxy = self.proxies[proxy_index % len(self.proxies)]
ProxyOf(th) ==
  IF th.proxies # <<>>
  THEN th.proxies[(th.proxy_index % Len(th.proxies)) + 1]
  ELSE "None"

\* if self.proxies: proxy_index += 1
NextProxyIndex(th) ==
  IF th.proxies # <<>> THEN th.proxy_index + 1 ELSE th.proxy_index

\* the request google_search sends: the query, the proxy and num of search_url
RequestOf(th) ==
  [query |-> QueryOf(th), proxy |-> ProxyOf(th), num |-> Min2(th.max_results, 100)]

\* self.progress.emit(f"Searching: {dork}", idx + 1, total_dorks)
progress_signal(th) ==
  [sig |-> "progress",
   args |-> <<"Searching: " \o DorkAt(th), th.idx + 1, Len(th.dorks)>>]

\* self.result.emit({"dork": dork, "urls": urls, "count": len(urls)})
result_signal(th, urls) ==
  [sig |-> "result",
   args |-> <<[dork |-> DorkAt(th), urls |-> urls, count |-> Len(urls)]>>]

\* self.finished.emit()
finished_signal == [sig |-> "finished", args |-> <<>>]

\* self.error.emit(f"Search error: {exc}")
error_signal == [sig |-> "error", args |-> <<"Search error: exc">>]

\* the values random.uniform(a, b) can return, a + (b - a) * random(), on the
\* grid of whole time units
uniform(a, b) == Min2(a, b)..Max2(a, b)

\* faulty variant: the loop goes on without sleeping
enter_sleep_Skipped(th, d) == [th EXCEPT !.pc = "loop", !.idx = @ + 1]

\* time.sleep(d) is entered
enter_sleep(th, d) == [th EXCEPT !.pc = "sleep", !.delay = d, !.remaining = d]

\* faulty variant: the sleep also ends as soon as the thread is stopped
sleep_over_OrStopped(th) == th.remaining = 0 \/ ~th.running

\* time.sleep returns once the whole duration has elapsed
sleep_over(th) == th.remaining = 0

\* faulty variant: stop flips the flag
stop_Toggles(th) == [th EXCEPT !.running = ~@]

\* faulty variant: stop sets another attribute and leaves running alone
stop_SetsNothing(th) == th

\* DorkSearchThread.stop
stop(th) == [th EXCEPT !.running = FALSE]

\* a queued signal of thread t: the emission is recorded and posted to the window
Emit(t, signal, h) ==
  /\ queue' = Append(queue, [run |-> t] @@ signal)
  /\ hist' = [hist EXCEPT ![t] = [h EXCEPT !.emitted = Append(@, signal)]]

\* run(): the head of the loop.  Either the loop is left (the list is
\* exhausted or running is false) and finished is emitted, or the iteration
\* begins: progress is emitted, query and proxy are chosen, and google_search
\* sends its request.
LoopTop(t) ==
  LET th == threads[t] IN
  /\ th.pc = "loop"
  /\ IF Iterates(th)
     THEN /\ threads' = [threads EXCEPT ![t] =
                           [th EXCEPT !.pc = "fetch", !.query = QueryOf(th),
                                      !.proxy = ProxyOf(th),
                                      !.proxy_index = NextProxyIndex(th)]]
          /\ Emit(t, progress_signal(th),
                  [hist[t] EXCEPT !.requests = Append(@, RequestOf(th))])
     ELSE /\ threads' = [threads EXCEPT ![t] = [th EXCEPT !.pc = "done"]]
          /\ Emit(t, finished_signal, hist[t])
  /\ UNCHANGED gui_vars

\* faulty variant: a request that failed is sent once more
FetchReturns_Retries(t, outcome) ==
  LET th == threads[t]
      urls == google_search(outcome, th.max_results)
  IN
  /\ th.pc = "fetch"
  /\ \E d \in uniform(th.min_delay, th.max_delay) :
        threads' = [threads EXCEPT ![t] = enter_sleep(th, d)]
  /\ Emit(t, result_signal(th, urls),
          [hist[t] EXCEPT
             !.failed = IF TransportFailure(outcome) THEN @ \cup {th.idx} ELSE @,
             !.pages = Append(@, IF TransportFailure(outcome) THEN <<>> ELSE outcome.body),
             !.requests = IF TransportFailure(outcome)
                          THEN Append(@, @[Len(@)]) ELSE @])
  /\ UNCHANGED gui_vars

\* run(): google_search returns, the result is emitted, the delay is drawn
\* and time.sleep is entered.
FetchReturns(t, outcome) ==
  LET th == threads[t]
      urls == google_search(outcome, th.max_results)
  IN
  /\ th.pc = "fetch"
  /\ \E d \in uniform(th.min_delay, th.max_delay) :
        threads' = [threads EXCEPT ![t] = enter_sleep(th, d)]
  /\ Emit(t, result_signal(th, urls),
          [hist[t] EXCEPT
             !.failed = IF TransportFailure(outcome) THEN @ \cup {th.idx} ELSE @,
             !.pages = Append(@, IF TransportFailure(outcome) THEN <<>> ELSE outcome.body)])
  /\ UNCHANGED gui_vars

\* one time unit of time.sleep passes
Tick(t) ==
  LET th == threads[t] IN
  /\ th.pc = "sleep"
  /\ ~sleep_over(th)
  /\ threads' = [threads EXCEPT ![t] = [th EXCEPT !.remaining = @ - 1]]
  /\ hist' = [hist EXCEPT ![t].overslept =
                IF hist[t].stopAt.pc = "sleep" /\ hist[t].stopAt.idx = th.idx
                THEN @ + 1 ELSE @]
  /\ UNCHANGED <<gui_vars, queue>>

\* faulty variant: the wait is never left
Wake_Stalls(t) ==
  /\ threads[t].pc = "sleep"
  /\ sleep_over(threads[t])
  /\ UNCHANGED vars

\* time.sleep returns and the for loop advances
Wake(t) ==
  LET th == threads[t] IN
  /\ th.pc = "sleep"
  /\ sleep_over(th)
  /\ threads' = [threads EXCEPT ![t] =
                   [th EXCEPT !.pc = "loop", !.idx = @ + 1, !.delay = 0]]
  /\ hist' = [hist EXCEPT ![t].sleeps = @ + 1]
  /\ UNCHANGED <<gui_vars, queue>>

\* faulty variant: the handler also runs once run() has emitted finished
RunRaises_AfterFinished(t) ==
  LET th == threads[t] IN
  /\ th.pc \in {"loop", "fetch", "sleep", "done"}
  /\ threads' = [threads EXCEPT ![t] = [th EXCEPT !.pc = "done"]]
  /\ Emit(t, error_signal, [hist[t] EXCEPT !.faulted = TRUE])
  /\ UNCHANGED gui_vars

\* run(): a statement of the try block raises an Exception; the handler
\* emits error and run() returns.
RunRaises(t) ==
  LET th == threads[t] IN
  /\ th.pc \in {"loop", "fetch", "sleep"}
  /\ threads' = [threads EXCEPT ![t] = [th EXCEPT !.pc = "done"]]
  /\ Emit(t, error_signal, [hist[t] EXCEPT !.faulted = TRUE])
  /\ UNCHANGED gui_vars

(***************************************************************************)
(* PagodoGUI.  A handler runs when its button, if it has one, is enabled;  *)
(* the slots of the worker's signals run when the signal is delivered,     *)
(* in the order of emission.  The widgets that only display (the log, the  *)
(* progress bar, the tables and labels that mirror the lists) are left     *)
(* out.                                                                    *)
(***************************************************************************)
\* load_dorks: the file dialog returns a file whose non-empty lines are ds
load_dorks(ds) ==
  /\ loads < MaxLoads
  /\ loads' = loads + 1
  /\ dorks' = ds
  /\ start_search_btn' = (Len(ds) > 0)
  /\ UNCHANGED <<search_results, database_urls, stop_search_btn, fetch_dorks_btn,
                 search_thread, threads, queue, hist, scrapers, refused, front_ends, param_results>>

\* QMessageBox.warning(self, "No Dorks", "Please fetch or load dorks first!")
NoDorks == [by |-> "PagodoGUI.start_search", title |-> "No Dorks"]

\* start_search: the proxies are the lines of the proxy box when the check box
\* is ticked; the results are cleared, the thread is created and started.
\* With no dorks loaded it shows a warning and returns.
start_search(domain, enable_proxy, lines, max_results, min_delay, max_delay) ==
  LET proxies == IF enable_proxy THEN lines ELSE <<>> IN
  /\ start_search_btn
  /\ IF dorks = <<>>
     THEN /\ refused' = Append(refused, NoDorks)
          /\ UNCHANGED <<window_vars, front_ends, threads, queue, hist>>
     ELSE /\ search_results' = <<>>
          /\ threads' = Append(threads,
                               NewThread(dorks, domain, proxies, max_results,
                                         min_delay, max_delay))
          /\ hist' = Append(hist, NewHist)
          /\ search_thread' = Len(threads) + 1
          /\ start_search_btn' = FALSE
          /\ stop_search_btn' = TRUE
          /\ fetch_dorks_btn' = FALSE
          /\ UNCHANGED <<dorks, database_urls, loads, queue, scrapers, refused, front_ends, param_results>>

\* the position of thread t when stop() reaches it
Position(t) ==
  [idx |-> threads[t].idx, pc |-> threads[t].pc,
   results |-> Cardinality({k \in 1..Len(hist[t].emitted) :
                              hist[t].emitted[k].sig = "result"}),
   remaining |-> threads[t].remaining]

\* stop_search
stop_search ==
  /\ stop_search_btn
  /\ \A t \in Runs : hist[t].stops < MaxStops
  /\ IF search_thread # 0
     THEN /\ threads' = [threads EXCEPT ![search_thread] = stop(@)]
          /\ hist' = [hist EXCEPT
                        ![search_thread].stops = @ + 1,
                        ![search_thread].stopAt =
                           IF @ = NoStop THEN Position(search_thread) ELSE @]
     ELSE UNCHANGED <<threads, hist>>
  /\ UNCHANGED <<gui_vars, queue>>

Delivered(signal) == queue # <<>> /\ Head(queue).sig = signal

\* on_search_progress(message, current, total): progress bar and log only
on_search_progress ==
  /\ Delivered("progress")
  /\ queue' = Tail(queue)
  /\ UNCHANGED <<gui_vars, threads, hist>>

\* the rows on_search_result appends to search_results for one result
RowsOf(result) ==
  [k \in 1..Len(result.urls) |->
     [dork |-> result.dork, url |-> result.urls[k],
      parameters |-> ParametersOf(result.urls[k])]]

\* the URLs on_search_result appends to database_urls for one result
RECURSIVE DatabaseUrlsOf(_)
DatabaseUrlsOf(urls) ==
  IF urls = <<>> THEN <<>>
  ELSE (IF is_database_url(Head(urls)) THEN <<Head(urls)>> ELSE <<>>)
       \o DatabaseUrlsOf(Tail(urls))

\* on_search_result(result)
on_search_result ==
  /\ Delivered("result")
  /\ LET result == Head(queue).args[1] IN
       /\ search_results' = search_results \o RowsOf(result)
       /\ database_urls' = database_urls \o DatabaseUrlsOf(result.urls)
  /\ queue' = Tail(queue)
  /\ UNCHANGED <<dorks, start_search_btn, stop_search_btn, fetch_dorks_btn,
                 search_thread, loads, threads, hist, scrapers, refused, front_ends, param_results>>

\* on_search_finished
on_search_finished ==
  /\ Delivered("finished")
  /\ start_search_btn' = TRUE
  /\ stop_search_btn' = FALSE
  /\ fetch_dorks_btn' = TRUE
  /\ queue' = Tail(queue)
  /\ UNCHANGED <<dorks, search_results, database_urls, search_thread, loads,
                 threads, hist, scrapers, refused, front_ends, param_results>>

\* faulty variant: the failure discards what the run had found
on_search_error_Discards ==
  /\ Delivered("error")
  /\ search_results' = <<>>
  /\ database_urls' = <<>>
  /\ start_search_btn' = TRUE
  /\ stop_search_btn' = FALSE
  /\ fetch_dorks_btn' = TRUE
  /\ queue' = Tail(queue)
  /\ UNCHANGED <<dorks, search_thread, loads,
                 threads, hist, scrapers, refused, front_ends, param_results>>

\* on_search_error(error_msg)
on_search_error ==
  /\ Delivered("error")
  /\ start_search_btn' = TRUE
  /\ stop_search_btn' = FALSE
  /\ fetch_dorks_btn' = TRUE
  /\ queue' = Tail(queue)
  /\ UNCHANGED <<dorks, search_results, database_urls, search_thread, loads,
                 threads, hist, scrapers, refused, front_ends, param_results>>

\* The search runs of the window.  The domain box is left empty and the
\* max-results box holds MaxCap in every run started here.
Next ==
  \/ \E ds \in DorkLists : load_dorks(ds)
  \/ \E domain \in {""}, enable_proxy \in BOOLEAN, lines \in ProxyPools,
        max_results \in {MaxCap}, min_delay \in MinDelays, max_delay \in MaxDelays :
       /\ Len(threads) < MaxRuns
       /\ start_search(domain, enable_proxy, lines, max_results, min_delay, max_delay)
  \/ stop_search
  \/ on_search_progress
  \/ on_search_result
  \/ on_search_finished
  \/ on_search_error
  \/ \E t \in Runs : LoopTop(t)
  \/ \E t \in Runs, outcome \in Outcomes : FetchReturns(t, outcome)
  \/ \E t \in Runs : Tick(t)
  \/ \E t \in Runs : Wake(t)
  \/ \E t \in Runs : RunRaises(t)

Spec == Init /\ [][Next]_vars

(***************************************************************************)
(* Vocabulary of the properties.                                           *)
(***************************************************************************)
IsResult(e) == e.sig = "result"

IsTerminal(e) == e.sig \in {"finished", "error"}

\* the result events thread t has emitted, and the dorks they carry
Results(t) == SelectSeq(hist[t].emitted, IsResult)

ResultDorks(t) == [k \in 1..Len(Results(t)) |-> Results(t)[k].args[1].dork]

Terminals(t) == SelectSeq(hist[t].emitted, IsTerminal)

IsPrefix(a, b) == Len(a) <= Len(b) /\ a = SubSeq(b, 1, Len(a))

Returned(t) == threads[t].pc = "done"

\* a run nobody stopped, with no failed fetch and no exception
Undisturbed(t) ==
  hist[t].stops = 0 /\ hist[t].failed = {} /\ ~hist[t].faulted

\* every signal of thread t has reached its slot
AllDelivered(t) == \A k \in 1..Len(queue) : queue[k].run # t

\* the rows the results of thread t put into search_results
RECURSIVE RowsOfAll(_)
RowsOfAll(results) ==
  IF results = <<>> THEN <<>>
  ELSE RowsOf(Head(results).args[1]) \o RowsOfAll(Tail(results))

\* the queries of thread t of which search_results holds a row
RecordedQueries(t) ==
  {k \in 1..Len(threads[t].dorks) :
     \E r \in 1..Len(search_results) : search_results[r].dork = threads[t].dorks[k]}

\* a finished event that tells a cancelled run from a completed one
FinishedViaStop(e) == e.sig = "finished" /\ e # finished_signal

\* the first stop() came after a result was emitted and before the running
\* check of the next query
StoppedBetweenQueries(t) ==
  /\ hist[t].stopAt.pc \in {"sleep", "loop"}
  /\ hist[t].stopAt.results >= 1

C3_FailureIsAbsorbed ==
  \A t \in Runs :
    /\ \A j \in hist[t].failed :
         /\ Len(Results(t)) >= j + 1
         /\ Results(t)[j + 1].args[1].urls = <<>>
         /\ Results(t)[j + 1].args[1].count = 0
         /\ Results(t)[j + 1].args[1].dork = threads[t].dorks[j + 1]
    /\ (Returned(t) /\ hist[t].stops = 0 /\ ~hist[t].faulted)
       => /\ Len(Results(t)) = Len(threads[t].dorks)
          /\ Terminals(t) = <<finished_signal>>

C3_Witness ==
  \E t \in Runs :
    /\ 0 \in hist[t].failed
    /\ Len(threads[t].dorks) = 2
    /\ Returned(t) /\ hist[t].stops = 0 /\ ~hist[t].faulted
    /\ Results(t)[2].args[1].count > 0

(***************************************************************************)
(* C4.  In every state the dorks of the results emitted so far are a       *)
(* prefix of the thread's dork list.                                       *)
(***************************************************************************)
C4_ResultsArePrefix ==
  \A t \in Runs : IsPrefix(ResultDorks(t), threads[t].dorks)

C4_Witness ==
  \E t \in Runs :
    /\ ResultDorks(t) = <<"d2", "d1">>
    /\ hist[t].failed # {}
    /\ hist[t].stops > 0

(***************************************************************************)
(* The worker alone, for the proxy rotation: longer dork lists and larger  *)
(* pools, one fixed delay, fetches that succeed or fail; the window only   *)
(* loads the list and starts the search.                                   *)
(***************************************************************************)
RotationList(n) == [i \in 1..n |-> IF i % 2 = 1 THEN "d1" ELSE "d2"]

RotationOutcomes ==
  {[kind |-> "raise", status |-> 0, body |-> PageEmpty],
   [kind |-> "response", status |-> 200, body |-> PageEmpty]}

NextRotation ==
  \/ \E n \in 1..MaxRotationDorks : load_dorks(RotationList(n))
  \/ \E enable_proxy \in BOOLEAN, m \in 0..MaxRotationPool :
       /\ Len(threads) < MaxRuns
       /\ start_search("", enable_proxy, ProxyPool(m), MaxCap, 1, 1)
  \/ stop_search
  \/ \E t \in Runs : LoopTop(t)
  \/ \E t \in Runs, outcome \in RotationOutcomes : FetchReturns(t, outcome)
  \/ \E t \in Runs : Tick(t)
  \/ \E t \in Runs : Wake(t)
  \/ \E t \in Runs : RunRaises(t)

SpecRotation == Init /\ [][NextRotation]_vars

(***************************************************************************)
(* C5.  The k-th request of a run (k = 1, 2, ...) goes through proxy       *)
(* pool[(k-1) mod m] of a pool of size m > 0, whether the fetches before   *)
(* it succeeded or failed, the cursor having advanced once per request;    *)
(* with an empty pool every request goes without proxy.                    *)
(***************************************************************************)
C5_RoundRobin ==
  \A t \in Runs :
    LET pool == threads[t].proxies
        reqs == hist[t].requests
    IN  /\ \A k \in 1..Len(reqs) :
             reqs[k].proxy = IF pool = <<>> THEN "None"
                             ELSE pool[((k - 1) % Len(pool)) + 1]
        /\ threads[t].proxy_index = IF pool = <<>> THEN 0 ELSE Len(reqs)

C5_Witness ==
  \E t \in Runs :
    /\ Len(threads[t].proxies) = 3
    /\ [k \in 1..Len(hist[t].requests) |-> hist[t].requests[k].proxy]
         = <<"proxy1", "proxy2", "proxy3", "proxy1", "proxy2">>
    /\ hist[t].failed = {1, 3}
    /\ Returned(t)

(***************************************************************************)
(* C6.  A second stop() changes nothing: a step in which stop() is called  *)
(* on a thread already stopped leaves the thread object, the signals       *)
(* emitted and the signals pending exactly as they were.                   *)
(***************************************************************************)
C6_StopIsIdempotent ==
  [][\A t \in Runs :
       (hist[t].stops >= 1 /\ hist'[t].stops = hist[t].stops + 1)
       => /\ threads' = threads
          /\ queue' = queue
          /\ hist'[t].emitted = hist[t].emitted]_vars

C6_Witness ==
  \E t \in Runs :
    /\ hist[t].stops = 2
    /\ hist[t].stopAt.pc = "fetch"
    /\ Returned(t)
    /\ Terminals(t) = <<finished_signal>>

(***************************************************************************)
(* C7.  A stop() that arrives while the fetch of query i is in flight      *)
(* does not interrupt it: the run leaves the fetch only by emitting the    *)
(* result of query i (or through the exception handler), and no request    *)
(* for a later query is ever sent.                                         *)
(***************************************************************************)
C7_StopDuringFetch ==
  \A t \in Runs :
    hist[t].stopAt.pc = "fetch"
    => /\ Len(hist[t].requests) = hist[t].stopAt.idx + 1
       /\ threads[t].pc # "fetch" /\ ~hist[t].faulted
          => Len(Results(t)) = hist[t].stopAt.idx + 1
       /\ threads[t].pc = "fetch" => threads[t].idx = hist[t].stopAt.idx

C7_Witness ==
  \E t \in Runs :
    /\ hist[t].stopAt.pc = "fetch"
    /\ hist[t].stopAt.idx = 0
    /\ Len(threads[t].dorks) = 2
    /\ Returned(t) /\ ~hist[t].faulted
    /\ Results(t)[1].args[1].count = 2

(***************************************************************************)
(* C8.  As claimed: a stop() that arrives while the run sleeps its delay   *)
(* ends the sleep before the whole delay has elapsed.                      *)
(***************************************************************************)
\* thread t has come out of the sleep during which the first stop() arrived
LeftStoppedSleep(t) ==
  /\ hist[t].stopAt.pc = "sleep"
  /\ hist[t].stopAt.remaining > 0
  /\ ~hist[t].faulted
  /\ threads[t].pc # "sleep"

C9_AsClaimed ==
  \A t \in Runs :
    threads[t].pc = "sleep"
    => /\ threads[t].min_delay <= threads[t].delay
       /\ threads[t].delay <= threads[t].max_delay
       /\ threads[t].min_delay = threads[t].max_delay
          => threads[t].delay = threads[t].min_delay

C11_AsClaimed ==
  \A t \in Runs : threads[t].min_delay <= threads[t].max_delay

(***************************************************************************)
(* The dork scraper of the PyQt6 window.  DorkScraperThread.run emits      *)
(* finished with the dorks scrape_ghdb collected (none when no category    *)
(* could be scraped), or error when an exception reaches its handler; its  *)
(* progress signals only feed the log and are left out.  The signals of    *)
(* all threads are delivered to the window in the order of emission.       *)
(***************************************************************************)
\* self.finished.emit(dorks_dict)
scraper_finished(ds) ==
  [run |-> 0, sig |-> "scraper_finished", args |-> <<[extracted_dorks |-> ds]>>]

\* self.error.emit(f"Error scraping dorks: {exc}")
scraper_error ==
  [run |-> 0, sig |-> "scraper_error", args |-> <<"Error scraping dorks: exc">>]

\* fetch_dorks
fetch_dorks ==
  /\ fetch_dorks_btn
  /\ fetch_dorks_btn' = FALSE
  /\ scrapers' = Append(scrapers, "running")
  /\ UNCHANGED <<dorks, search_results, database_urls, start_search_btn,
                 stop_search_btn, search_thread, loads, threads, queue, hist,
                 refused, front_ends, param_results>>

\* DorkScraperThread.run returns: scrape_ghdb has collected the dorks ds
ScraperReturns(s, ds) ==
  /\ scrapers[s] = "running"
  /\ scrapers' = [scrapers EXCEPT ![s] = "done"]
  /\ queue' = Append(queue, scraper_finished(ds))
  /\ UNCHANGED <<dorks, search_results, database_urls, start_search_btn,
                 stop_search_btn, fetch_dorks_btn, search_thread, loads,
                 threads, hist, refused, front_ends, param_results>>

\* DorkScraperThread.run: an exception reaches the handler
ScraperRaises(s) ==
  /\ scrapers[s] = "running"
  /\ scrapers' = [scrapers EXCEPT ![s] = "done"]
  /\ queue' = Append(queue, scraper_error)
  /\ UNCHANGED <<dorks, search_results, database_urls, start_search_btn,
                 stop_search_btn, fetch_dorks_btn, search_thread, loads,
                 threads, hist, refused, front_ends, param_results>>

\* on_dorks_fetched(dorks_dict)
on_dorks_fetched ==
  /\ Delivered("scraper_finished")
  /\ dorks' = Head(queue).args[1].extracted_dorks
  /\ fetch_dorks_btn' = TRUE
  /\ start_search_btn' = (Len(dorks') > 0)
  /\ queue' = Tail(queue)
  /\ UNCHANGED <<search_results, database_urls, stop_search_btn, search_thread,
                 loads, threads, hist, scrapers, refused, front_ends, param_results>>

\* on_scraper_error(error_msg)
on_scraper_error ==
  /\ Delivered("scraper_error")
  /\ fetch_dorks_btn' = TRUE
  /\ queue' = Tail(queue)
  /\ UNCHANGED <<dorks, search_results, database_urls, start_search_btn,
                 stop_search_btn, search_thread, loads, threads, hist, scrapers,
                 refused, front_ends, param_results>>

(***************************************************************************)
(* pagodo_cli.PagodoCLI: the menu entries that edit the two delays and the *)
(* dorks file, and run_pagodo.  What the user types at a prompt is the     *)
(* sequence of the answers given until one is accepted; an answer is an    *)
(* integer (number is TRUE and value is int(answer)), or text for which    *)
(* int() raises ValueError (number is FALSE).                              *)
(***************************************************************************)
Number(v) == [number |-> TRUE, value |-> v]

NotANumber == [number |-> FALSE, value |-> 0]

\* prompt_int(prompt, minimum=minimum): one pass of the loop accepts answer
Accepted(answer, minimum) == answer.number /\ answer.value >= minimum

\* prompt_int: the index of the answer it returns, 0 while it still prompts
RECURSIVE prompt_int_at(_, _, _)
prompt_int_at(answers, minimum, k) ==
  IF k > Len(answers) THEN 0
  ELSE IF Accepted(answers[k], minimum) THEN k
  ELSE prompt_int_at(answers, minimum, k + 1)

\* the delays and the dorks file of the configuration, as display_config
\* shows them above the menu and as run_pagodo passes them to Pagodo(**config)
ConfigOf(c) ==
  [google_dorks_file |-> c.google_dorks_file,
   minimum_delay |-> c.minimum_delay, maximum_delay |-> c.maximum_delay]

\* the answers prompt_int turned down before it returned answers[k], each
\* with the configuration on the screen at the time
TurnedDown(key, answers, minimum, k) ==
  [i \in 1..(k - 1) |->
     [by |-> "prompt_int", key |-> key, answer |-> answers[i], minimum |-> minimum,
      config |-> ConfigOf(cli)]]

\* the menu entry sets config[key] to what prompt_int returns
SetDelay(key, answers, minimum, k) ==
  /\ k # 0
  /\ cli' = [cli EXCEPT ![key] = answers[k].value]
  /\ refused' = refused \o TurnedDown(key, answers, minimum, k)
  /\ UNCHANGED <<window_vars, qt5, threads, queue, hist>>

\* set_minimum_delay: prompt_int(..., minimum=0)
set_minimum_delay(answers) ==
  SetDelay("minimum_delay", answers, 0, prompt_int_at(answers, 0, 1))

\* faulty variant: the maximum may also fall below the minimum
MaximumFloor_None(minimum) == 0

\* set_maximum_delay: prompt_int(..., minimum=minimum + 1)
MaximumFloor(minimum) == minimum + 1

set_maximum_delay(answers) ==
  SetDelay("maximum_delay", answers, MaximumFloor(cli.minimum_delay),
           prompt_int_at(answers, MaximumFloor(cli.minimum_delay), 1))

\* set_dorks_file: prompt_path returns an existing .txt file (a .json file is
\* converted to one first)
set_dorks_file(path) ==
  /\ cli' = [cli EXCEPT !.google_dorks_file = path]
  /\ UNCHANGED <<window_vars, qt5, refused, threads, queue, hist>>

\* input("Google dorks file is required. Press Enter to continue...")
NoDorksFile == [by |-> "PagodoCLI.run_pagodo", title |-> "Google dorks file is required"]

\* faulty variant: the searcher is run whatever the file
HasDorksFile_Unchecked(c) == TRUE

\* if not self.config["google_dorks_file"]
HasDorksFile(c) == c.google_dorks_file # "None"

\* run_pagodo
run_pagodo ==
  /\ IF HasDorksFile(cli)
     THEN /\ cli' = [cli EXCEPT !.launched = Append(@, ConfigOf(cli))]
          /\ UNCHANGED refused
     ELSE /\ refused' = Append(refused, NoDorksFile)
          /\ UNCHANGED cli
  /\ UNCHANGED <<window_vars, qt5, threads, queue, hist>>

(***************************************************************************)
(* pagodo_gui.PagodoGUI (PyQt5): start_search and the end of its worker.   *)
(* The worker's finished or failed signal is connected to the window's     *)
(* handler and to thread.quit; the two are delivered one after the other,  *)
(* and the handler opens a message box inside which the other can run.     *)
(***************************************************************************)
\* QMessageBox.information(self, "Task in progress", ...)
TaskInProgress == [by |-> "qt5.start_search", title |-> "Task in progress"]

\* QMessageBox.information(self, "Update in progress", ...)
UpdateInProgress == [by |-> "qt5.start_scrape", title |-> "Update in progress"]

\* self.thread.isRunning() on a QThread that thread.deleteLater has destroyed:
\* the call raises RuntimeError and the handler ends there.  Where the
\* binding ends the program on an exception in a slot, the behaviour stops
\* at this step; every such behaviour is a prefix of one modelled here.
WrappedObjectDeleted(by) == [by |-> by, title |-> "RuntimeError"]

\* QMessageBox.warning(self, "Invalid dork file", ...)
InvalidDorkFile == [by |-> "qt5.start_search", title |-> "Invalid dork file"]

\* QMessageBox.warning(self, "Invalid delays", ...)
InvalidDelays(min_delay, max_delay) ==
  [by |-> "qt5.start_search", title |-> "Invalid delays",
   min_delay |-> min_delay, max_delay |-> max_delay]

\* faulty variant: equal delays are turned down as well
DelaysInOrder_Strict(min_delay, max_delay) == min_delay < max_delay

\* not (self.min_delay_spin.value() > self.max_delay_spin.value())
DelaysInOrder(min_delay, max_delay) == ~(min_delay > max_delay)

\* which message start_search shows instead of starting, "none" if it starts
Qt5Refusal(exists, min_delay, max_delay) ==
  IF qt5.deleted THEN WrappedObjectDeleted("qt5.start_search")
  ELSE IF qt5.running THEN TaskInProgress
  ELSE IF ~exists THEN InvalidDorkFile
  ELSE IF ~DelaysInOrder(min_delay, max_delay) THEN InvalidDelays(min_delay, max_delay)
  ELSE [by |-> "qt5.start_search", title |-> "none"]

\* start_search, clicked while the run button is enabled; exists tells
\* whether the selected dork file exists
qt5_start_search(exists, min_delay, max_delay) ==
  /\ ~qt5.busy
  /\ IF Qt5Refusal(exists, min_delay, max_delay).title # "none"
     THEN /\ refused' = Append(refused, Qt5Refusal(exists, min_delay, max_delay))
          /\ UNCHANGED qt5
     ELSE /\ qt5' = [qt5 EXCEPT
                       !.busy = TRUE, !.running = TRUE, !.worker = "run",
                       !.deleted = FALSE,
                       !.started = Append(@, "search"),
                       !.launched = Append(@, [exists |-> exists,
                                               min_delay |-> min_delay,
                                               max_delay |-> max_delay])]
          /\ UNCHANGED refused
  /\ UNCHANGED <<window_vars, cli, threads, queue, hist>>

\* start_scrape, clicked while the update button is enabled; a Path is never
\* false, so the "Invalid directory" branch is never taken
qt5_start_scrape ==
  /\ ~qt5.busy
  /\ IF qt5.deleted
     THEN /\ refused' = Append(refused, WrappedObjectDeleted("qt5.start_scrape"))
          /\ UNCHANGED qt5
     ELSE IF qt5.running
     THEN /\ refused' = Append(refused, UpdateInProgress)
          /\ UNCHANGED qt5
     ELSE /\ qt5' = [qt5 EXCEPT !.busy = TRUE, !.running = TRUE, !.worker = "run",
                                !.deleted = FALSE,
                                !.started = Append(@, "scrape")]
          /\ UNCHANGED refused
  /\ UNCHANGED <<window_vars, cli, threads, queue, hist>>

\* what the worker's run meets: its work returns, or raises an Exception
Qt5Outcomes == {"returns", "raises"}

\* run: finished.emit at the end of the try block, failed.emit in except
Qt5SignalOf(outcome) == IF outcome = "raises" THEN "failed" ELSE "finished"

\* the slot the window connected to the worker's signal
Qt5HandlerOf(kind, signal) ==
  IF kind = "scrape"
  THEN (IF signal = "finished" THEN "scrape_complete" ELSE "scrape_failed")
  ELSE (IF signal = "finished" THEN "search_complete" ELSE "search_failed")

\* faulty variant: run returns without having emitted a signal
Qt5WorkerReturns_Silent ==
  /\ qt5.worker = "run"
  /\ qt5' = [qt5 EXCEPT !.worker = "returned"]
  /\ UNCHANGED <<window_vars, cli, refused, threads, queue, hist>>

\* ScrapeWorker.run or PagodoWorker.run returns, having emitted finished or
\* failed; the signal is queued for its handler and for thread.quit
Qt5WorkerReturns ==
  /\ qt5.worker = "run"
  /\ \E outcome \in Qt5Outcomes :
       qt5' = [qt5 EXCEPT !.worker = "returned", !.slot_pending = TRUE,
                          !.quit_pending = TRUE,
                          !.signals = Append(@, Qt5SignalOf(outcome))]
  /\ UNCHANGED <<window_vars, cli, refused, threads, queue, hist>>

\* scrape_complete, scrape_failed, search_complete or search_failed, each
\* ending in set_busy_state(False)
Qt5Handler ==
  /\ qt5.slot_pending
  /\ qt5' = [qt5 EXCEPT
               !.slot_pending = FALSE, !.busy = FALSE,
               !.handled = Append(@, Qt5HandlerOf(qt5.started[Len(qt5.started)],
                                                  qt5.signals[Len(qt5.signals)]))]
  /\ UNCHANGED <<window_vars, cli, refused, threads, queue, hist>>

\* thread.quit: the thread leaves its event loop and stops running
Qt5ThreadQuits ==
  /\ qt5.quit_pending
  /\ qt5' = [qt5 EXCEPT !.quit_pending = FALSE, !.running = FALSE]
  /\ UNCHANGED <<window_vars, cli, refused, threads, queue, hist>>

\* thread.finished -> thread.deleteLater: the QThread is destroyed when the
\* event loop gets to it, while self.thread still names it
Qt5ThreadDeleted ==
  /\ qt5.started # <<>>
  /\ ~qt5.running
  /\ ~qt5.quit_pending
  /\ ~qt5.deleted
  /\ qt5' = [qt5 EXCEPT !.deleted = TRUE]
  /\ UNCHANGED <<window_vars, cli, refused, threads, queue, hist>>

(***************************************************************************)
(* The PyQt6 window with its scraper, and the CLI's run entry: every way   *)
(* a run can be asked for.  Lists hold at most one dork, the searches use  *)
(* no proxy and a fixed delay, the pages hold no result.                   *)
(***************************************************************************)
WindowDorkLists == {<<>>, <<"d1">>}

ScrapedDorkLists == {<<>>, <<"d2">>}

NextWindow ==
  \/ \E ds \in WindowDorkLists : load_dorks(ds)
  \/ Len(scrapers) < MaxFetches /\ fetch_dorks
  \/ \E s \in 1..Len(scrapers), ds \in ScrapedDorkLists : ScraperReturns(s, ds)
  \/ \E s \in 1..Len(scrapers) : ScraperRaises(s)
  \/ on_dorks_fetched
  \/ on_scraper_error
  \/ /\ Len(threads) < MaxWindowRuns
     /\ Len(refused) < MaxRefused
     /\ start_search("", FALSE, <<>>, MaxCap, 1, 1)
  \/ stop_search
  \/ on_search_progress
  \/ on_search_result
  \/ on_search_finished
  \/ on_search_error
  \/ \E t \in Runs : LoopTop(t)
  \/ \E t \in Runs, outcome \in RotationOutcomes : FetchReturns(t, outcome)
  \/ \E t \in Runs : Tick(t)
  \/ \E t \in Runs : Wake(t)
  \/ \E t \in Runs : RunRaises(t)

SpecWindow == Init /\ [][NextWindow]_vars

(***************************************************************************)
(* Every way a run can be asked for without queries: the PyQt6 window with *)
(* its scraper and one search, and the CLI's menu entries for the dorks    *)
(* file and the run.                                                       *)
(***************************************************************************)
NextEntry ==
  \/ \E ds \in WindowDorkLists : load_dorks(ds)
  \/ Len(scrapers) < MaxFetches /\ fetch_dorks
  \/ \E s \in 1..Len(scrapers), ds \in ScrapedDorkLists : ScraperReturns(s, ds)
  \/ \E s \in 1..Len(scrapers) : ScraperRaises(s)
  \/ on_dorks_fetched
  \/ on_scraper_error
  \/ /\ dorks = <<>> \/ Len(threads) < MaxRuns
     /\ Len(refused) < MaxRefused
     /\ start_search("", FALSE, <<>>, MaxCap, 1, 1)
  \/ stop_search
  \/ on_search_progress
  \/ on_search_result
  \/ on_search_finished
  \/ on_search_error
  \/ \E t \in Runs : LoopTop(t)
  \/ \E t \in Runs, outcome \in RotationOutcomes : FetchReturns(t, outcome)
  \/ \E t \in Runs : Tick(t)
  \/ \E t \in Runs : Wake(t)
  \/ \E t \in Runs : RunRaises(t)
  \/ set_dorks_file("dorks.txt")
  \/ /\ Len(cli.launched) < MaxCliRuns
     /\ Len(refused) < MaxRefused
     /\ run_pagodo

SpecEntry == Init /\ [][NextEntry]_vars

(***************************************************************************)
(* C12.  A run is never started with an empty query list.  In every step   *)
(* taken while the window's dork list is empty no DorkSearchThread is      *)
(* created, in every step taken while the CLI has no dorks file the        *)
(* searcher is not invoked, every thread that exists was given at least    *)
(* one dork and every launched configuration names a dorks file; the step  *)
(* that turns such a request down changes nothing but the message shown.   *)
(***************************************************************************)
TurnsDownEmptyRun ==
  /\ Len(refused') = Len(refused) + 1
  /\ refused'[Len(refused')] \in {NoDorks, NoDorksFile}

C12_NoRunWithoutDorks ==
  [][/\ dorks = <<>> => Len(threads') = Len(threads)
     /\ ~HasDorksFile(cli) => cli'.launched = cli.launched
     /\ \A t \in 1..Len(threads') : threads'[t].dorks # <<>>
     /\ \A k \in 1..Len(cli'.launched) : cli'.launched[k].google_dorks_file # "None"
     /\ TurnsDownEmptyRun =>
          UNCHANGED <<window_vars, front_ends, threads, queue, hist>>]_vars

\* C12 witness: both front ends have turned down a request for a run without
\* queries, the window after a search over a list the scraper then emptied.
C12_Witness ==
  /\ \E k \in 1..Len(refused) : refused[k] = NoDorks
  /\ \E k \in 1..Len(refused) : refused[k] = NoDorksFile
  /\ threads # <<>>
  /\ cli.launched = <<>>

(***************************************************************************)
(* The front ends that set or validate the two delays: the CLI's two menu  *)
(* entries and the PyQt5 window's start_search with its worker.            *)
(***************************************************************************)
CliAnswers == {NotANumber} \cup {Number(v) : v \in 0..MaxCliDelay}

\* what is typed at one prompt: every answer but the last is turned down
AnswerLists ==
  UNION {[1..n -> CliAnswers] : n \in 1..MaxAnswers}

\* the values of the PyQt5 window's two delay spin boxes (range 0.1 to 600)
Qt5Delays == 1..MaxDelay

NextFrontEnds ==
  \/ \E answers \in AnswerLists :
       /\ Len(refused) < MaxRefused
       /\ set_minimum_delay(answers)
  \/ \E answers \in AnswerLists :
       /\ Len(refused) < MaxRefused
       /\ set_maximum_delay(answers)
  \/ \E exists \in BOOLEAN, min_delay \in Qt5Delays, max_delay \in Qt5Delays :
       /\ qt5.running \/ Len(qt5.launched) < MaxQt5Runs
       /\ Len(refused) < MaxRefused
       /\ qt5_start_search(exists, min_delay, max_delay)
  \/ Qt5WorkerReturns
  \/ Qt5Handler
  \/ Qt5ThreadQuits

SpecFrontEnds == Init /\ [][NextFrontEnds]_vars

(***************************************************************************)
(* C13, as claimed: equal delay bounds are accepted by every operation     *)
(* that sets or validates them.  No maximum typed at the CLI's prompt was  *)
(* turned down although it equalled the minimum on the screen, no minimum  *)
(* was turned down although it equalled the maximum, and the PyQt5 window  *)
(* showed "Invalid delays" for no pair of equal delays.                    *)
(***************************************************************************)
EqualBoundsTurnedDown(r) ==
  \/ /\ r.by = "prompt_int"
     /\ r.answer.number
     /\ \/ r.key = "maximum_delay" /\ r.answer.value = r.config.minimum_delay
        \/ r.key = "minimum_delay" /\ r.answer.value = r.config.maximum_delay
  \/ /\ r.by = "qt5.start_search"
     /\ r.title = "Invalid delays"
     /\ r.min_delay = r.max_delay

C13_AsClaimed ==
  \A k \in 1..Len(refused) : ~EqualBoundsTurnedDown(refused[k])

(***************************************************************************)
(* Searches over pages whose links google_search has to tell apart: the    *)
(* wrapped targets of PageLinks begin with "http" and are, in turn, no URL *)
(* at all, an http URL, an https URL, and an ftp URL.                      *)
(***************************************************************************)
PageLinks ==
  << <<"/","u","r","l","?","q","=","h","t","t","p","d","&","s","a","=","U">>,
     <<"/","u","r","l","?","q","=","h","t","t","p",":","/","/","x","/","a","&","s","a","=","U">>,
     <<"/","u","r","l","?","q","=","h","t","t","p","s",":","/","/","y","&","s","a","=","U">>,
     <<"/","u","r","l","?","q","=","f","t","p",":","/","/","z","&","s","a","=","U">> >>

ParsedPages == {PageResults, PageLinks}

ParsedOutcomes == {[kind |-> "response", status |-> 200, body |-> b] : b \in ParsedPages}

ParsedDorkLists == {<<"d1">>, <<"d1", "d2">>}

NextPages ==
  \/ \E ds \in ParsedDorkLists : load_dorks(ds)
  \/ \E max_results \in 1..MaxCap :
       /\ Len(threads) < MaxRuns
       /\ start_search("", FALSE, <<>>, max_results, 1, 1)
  \/ on_search_progress
  \/ on_search_result
  \/ on_search_finished
  \/ \E t \in Runs : LoopTop(t)
  \/ \E t \in Runs, outcome \in ParsedOutcomes : FetchReturns(t, outcome)
  \/ \E t \in Runs : Tick(t)
  \/ \E t \in Runs : Wake(t)

SpecPages == Init /\ [][NextPages]_vars

\* url is an absolute http or https URL: urlsplit finds the scheme http or
\* https and a host
IsHttpUrl(parsed) ==
  /\ ~parsed.bad
  /\ parsed.scheme \in {<<"h","t","t","p">>, <<"h","t","t","p","s">>}
  /\ parsed.netloc # <<>>

(***************************************************************************)
(* C14, as claimed: every result a run has emitted carries at most         *)
(* max_results URLs, and each of them is an absolute http or https URL.    *)
(***************************************************************************)
C14_AsClaimed ==
  \A t \in Runs : \A k \in 1..Len(Results(t)) :
    /\ Len(Results(t)[k].args[1].urls) <= threads[t].max_results
    /\ \A i \in 1..Len(Results(t)[k].args[1].urls) :
         IsHttpUrl(urlsplit(Results(t)[k].args[1].urls[i]))

(***************************************************************************)
(* C15.  Each run emits exactly one terminal event.  While run() has not   *)
(* returned the thread has emitted neither finished nor error; once it has *)
(* returned it has emitted exactly one of the two, and that event is the   *)
(* last one it emitted, so no result or progress follows it.               *)
(***************************************************************************)
TerminalAt(t) ==
  {k \in 1..Len(hist[t].emitted) : IsTerminal(hist[t].emitted[k])}

C15_OneTerminalEvent ==
  \A t \in Runs :
    /\ ~Returned(t) => TerminalAt(t) = {}
    /\ Returned(t) => TerminalAt(t) = {Len(hist[t].emitted)}

\* C15 witness: a run has returned after a result, the error event its last
C15_Witness ==
  \E t \in Runs :
    /\ Returned(t)
    /\ Len(Results(t)) >= 1
    /\ hist[t].faulted
    /\ hist[t].emitted[Len(hist[t].emitted)].sig = "error"

(***************************************************************************)
(* C16.  When an exception reaches the handler of run() while query j is   *)
(* processed, the run emits error as its last event and returns: it has    *)
(* begun no query after j, the results it emitted are those of the first   *)
(* dorks of its list, and once the window has handled all its events,      *)
(* error included, search_results and database_urls hold exactly what      *)
(* those results put there.                                                *)
(***************************************************************************)
RECURSIVE DatabaseUrlsOfAll(_)
DatabaseUrlsOfAll(results) ==
  IF results = <<>> THEN <<>>
  ELSE DatabaseUrlsOf(Head(results).args[1].urls) \o DatabaseUrlsOfAll(Tail(results))

\* the progress events of thread t: one for each query it has begun
Begun(t) == {k \in 1..Len(hist[t].emitted) : hist[t].emitted[k].sig = "progress"}

Domains == {"", "example.com"}

NextDomain ==
  \/ \E ds \in ParsedDorkLists : load_dorks(ds)
  \/ \E domain \in Domains :
       /\ Len(threads) < MaxRuns
       /\ start_search(domain, FALSE, <<>>, MaxCap, 1, 1)
  \/ stop_search
  \/ on_search_progress
  \/ on_search_result
  \/ on_search_finished
  \/ \E t \in Runs : LoopTop(t)
  \/ \E t \in Runs, outcome \in RotationOutcomes : FetchReturns(t, outcome)
  \/ \E t \in Runs : Tick(t)
  \/ \E t \in Runs : Wake(t)

SpecDomain == Init /\ [][NextDomain]_vars

clear_results ==
  /\ search_results' = <<>>
  /\ database_urls' = <<>>
  /\ UNCHANGED <<dorks, start_search_btn, stop_search_btn, fetch_dorks_btn,
                 search_thread, loads, scrapers, refused, front_ends,
                 threads, queue, hist, param_results>>

\* list(dict.fromkeys(urls)): the first occurrence of every element, in order
RECURSIVE FromKeys(_, _)
FromKeys(urls, seen) ==
  IF urls = <<>> THEN seen
  ELSE FromKeys(Tail(urls),
                IF \E k \in 1..Len(seen) : seen[k] = Head(urls)
                THEN seen ELSE Append(seen, Head(urls)))

\* faulty variant: of a repeated URL the last occurrence is kept
RECURSIVE KeepLast(_)
KeepLast(urls) ==
  IF urls = <<>> THEN <<>>
  ELSE (IF \E k \in 2..Len(urls) : urls[k] = Head(urls) THEN <<>> ELSE <<Head(urls)>>)
       \o KeepLast(Tail(urls))

filter_database_urls_KeepsLast ==
  /\ database_urls' = KeepLast(database_urls)
  /\ UNCHANGED <<dorks, search_results, start_search_btn, stop_search_btn,
                 fetch_dorks_btn, search_thread, loads, scrapers, refused,
                 front_ends, threads, queue, hist, param_results>>

\* filter_database_urls
filter_database_urls ==
  /\ database_urls' = IF Len(FromKeys(database_urls, <<>>)) # Len(database_urls)
                      THEN FromKeys(database_urls, <<>>)
                      ELSE database_urls
  /\ UNCHANGED <<dorks, search_results, start_search_btn, stop_search_btn,
                 fetch_dorks_btn, search_thread, loads, scrapers, refused,
                 front_ends, threads, queue, hist, param_results>>

Whitespace == {" ", "\t", "\n", "\r"}

\* s.strip()
RECURSIVE Strip(_)
Strip(s) ==
  IF s = <<>> THEN s
  ELSE IF Head(s) \in Whitespace THEN Strip(Tail(s))
  ELSE IF s[Len(s)] \in Whitespace THEN Strip(SubSeq(s, 1, Len(s) - 1))
  ELSE s

\* QMessageBox.information(self, "No URL", "Please enter a URL to analyze")
NoUrl == [by |-> "PagodoGUI.analyze_url", title |-> "No URL"]

\* if is_db: if url not in self.database_urls: self.database_urls.append(url)
Analyzed(url) ==
  IF is_database_url(url) /\ ~\E k \in 1..Len(database_urls) : database_urls[k] = url
  THEN Append(database_urls, url)
  ELSE database_urls

\* info, sql_patterns and is_db, from which the lines of the text box are made
Analysis(url) ==
  [url |-> url, info |-> extract_parameters(url),
   sql_patterns |-> extract_sql_patterns(url), is_db |-> is_database_url(url)]

\* analyze_url, with text in the URL box
analyze_url(text) ==
  /\ IF Strip(text) = <<>>
     THEN /\ refused' = Append(refused, NoUrl)
          /\ UNCHANGED <<database_urls, param_results>>
     ELSE /\ database_urls' = Analyzed(Strip(text))
          /\ param_results' = <<Analysis(Strip(text))>>
          /\ UNCHANGED refused
  /\ UNCHANGED <<dorks, search_results, start_search_btn, stop_search_btn,
                 fetch_dorks_btn, search_thread, loads, scrapers, front_ends,
                 threads, queue, hist>>

(***************************************************************************)
(* The window with the handlers that edit database_urls.  The pages hold   *)
(* the links of PageResults or the search fails; the URL box holds one of  *)
(* two URLs of that page, padded or not, another database URL, or blanks.  *)
(***************************************************************************)
AggregateOutcomes ==
  {[kind |-> "raise", status |-> 0, body |-> PageEmpty],
   [kind |-> "response", status |-> 200, body |-> PageResults]}

UrlBoxTexts ==
  { <<" ">>,
    <<"h","t","t","p",":","/","/","x","/","a","?","i","d","=","5">>,
    <<" ","h","t","t","p",":","/","/","x","/","a","?","i","d","=","5"," ">>,
    <<"h","t","t","p",":","/","/","x","/","b">>,
    <<"h","t","t","p",":","/","/","x","/","b",".","p","h","p">> }

NextAggregate ==
  \/ \E ds \in ParsedDorkLists : load_dorks(ds)
  \/ /\ Len(threads) < MaxRuns
     /\ start_search("", FALSE, <<>>, MaxCap, 1, 1)
  \/ on_search_progress
  \/ on_search_result
  \/ on_search_finished
  \/ \E t \in Runs : LoopTop(t)
  \/ \E t \in Runs, outcome \in AggregateOutcomes : FetchReturns(t, outcome)
  \/ \E t \in Runs : Tick(t)
  \/ \E t \in Runs : Wake(t)
  \/ clear_results
  \/ filter_database_urls
  \/ \E text \in UrlBoxTexts :
       /\ Strip(text) # <<>> \/ Len(refused) < MaxRefused
       /\ analyze_url(text)

SpecAggregate == Init /\ [][NextAggregate]_vars

\* no URL stands twice in urls
NoDuplicates(urls) ==
  \A i \in 1..Len(urls) : \A j \in 1..Len(urls) : urls[i] = urls[j] => i = j

(***************************************************************************)
(* C19, as claimed: database_urls is deduplicated at all times, whatever   *)
(* on_search_result, analyze_url, filter_database_urls and clear_results   *)
(* have done: it holds no URL twice.                                       *)
(***************************************************************************)
C19_AsClaimed == NoDuplicates(database_urls)

(***************************************************************************)
(* C20, as claimed: at most one search run is running at any time.  Of the *)
(* DorkSearchThreads the window has started, at most one has not yet       *)
(* emitted its terminal event.                                             *)
(***************************************************************************)
Running(t) == Terminals(t) = <<>>

C20_AsClaimed == Cardinality({t \in Runs : Running(t)}) <= 1

(***************************************************************************)
(* The parameter tab: analyze_url applies extract_parameters,              *)
(* extract_sql_patterns and is_database_url to the URL typed.  The URLs    *)
(* typed hold every indicator, in lower and upper case, inside a word,     *)
(* with and without digits, repeated and blank parameters and a host with  *)
(* an unmatched bracket.                                                   *)
(***************************************************************************)
AnalyzedUrls ==
  { <<"h","t","t","p",":","/","/","x",".","c","o","m","/","v","i","e","w",".","p","h","p","?","i","d","=","5">>,
    <<"h","t","t","p",":","/","/","x",".","c","o","m","/","a","b","o","u","t">>,
    <<"h","t","t","p",":","/","/","x",".","c","o","m","/","a","?","i","d","=","5","&","i","d","=","6","&","n","a","m","e","=","b","o","b">>,
    <<"h","t","t","p",":","/","/","x",".","c","o","m","/","A",".","P","H","P">>,
    <<"h","t","t","p",":","/","/","x",".","c","o","m","/","a","?","I","D","=","5">>,
    <<"h","t","t","p",":","/","/","x",".","c","o","m","/","a","?","i","d","=">>,
    <<"h","t","t","p",":","/","/","x",".","c","o","m","/","a","?","i","d","=","5","&","i","d","=">>,
    <<"h","t","t","p",":","/","/","[","x","/","a","?","i","d","=","5">>,
    <<"h","t","t","p",":","/","/","x",".","c","o","m","/","a","?","p","r","o","d","u","c","t","=","1","&","i","d","=","2">>,
    <<"h","t","t","p",":","/","/","x",".","c","o","m","/","a","?","p","a","g","e","=","2","&","c","a","t","=","3">>,
    <<"h","t","t","p",":","/","/","x",".","c","o","m","/","a",".","j","s","p">>,
    <<"h","t","t","p",":","/","/","x",".","c","o","m","/","a",".","a","s","p","x">>,
    <<"h","t","t","p",":","/","/","x",".","c","o","m","/","a","?","i","t","e","m","=","1">>,
    <<"h","t","t","p",":","/","/","x",".","c","o","m","/","a","?","u","s","e","r","=","u">>,
    <<"h","t","t","p",":","/","/","x",".","c","o","m","/","a","?","a","r","t","i","c","l","e","=","7">>,
    <<"h","t","t","p",":","/","/","x",".","c","o","m","/","a","?","v","i","e","w","=","v">>,
    <<"h","t","t","p",":","/","/","x",".","c","o","m","/","a","?","c","o","n","t","e","n","t","=","c">>,
    <<"h","t","t","p",":","/","/","x",".","c","o","m","/","a","?","s","h","o","w","=","s">>,
    <<"h","t","t","p",":","/","/","x",".","c","o","m","/","a","?","f","l","a","g">>,
    <<"h","t","t","p",":","/","/","x",".","c","o","m","/","a","?","q","=","1">>,
    <<"h","t","t","p",":","/","/","x",".","c","o","m","/","g","r","a","s","p">>,
    <<"h","t","t","p",":","/","/","x",".","c","o","m","/","a","?","q","=","1","&","q","=","2","&","q","=","3">> }

NextAnalyze ==
  \/ \E text \in AnalyzedUrls :
       /\ Len(database_urls) < MaxAnalyzed \/ Analyzed(Strip(text)) = database_urls
       /\ analyze_url(text)
  \/ Len(refused) < MaxRefused /\ analyze_url(<<" ">>)
  \/ clear_results

SpecAnalyze == Init /\ [][NextAnalyze]_vars

\* token occurs somewhere in s
Occurs(token, s) ==
  \E i \in 1..Len(s) : \E j \in i..Len(s) : SubSeq(s, i, j) = token

\* the catalogue of indicator tokens
IndicatorTokens ==
  { <<"p","h","p">>, <<"a","s","p">>, <<"a","s","p","x">>, <<"j","s","p">>,
    <<"i","d","=">>, <<"p","a","g","e","=">>, <<"c","a","t","=">>,
    <<"i","t","e","m","=">>, <<"u","s","e","r","=">>,
    <<"p","r","o","d","u","c","t","=">>, <<"a","r","t","i","c","l","e","=">>,
    <<"v","i","e","w","=">>, <<"c","o","n","t","e","n","t","=">>,
    <<"s","h","o","w","=">> }

ViewPhpUrl ==
  <<"h","t","t","p",":","/","/","x",".","c","o","m","/","v","i","e","w",".","p","h","p","?","i","d","=","5">>

AboutUrl == <<"h","t","t","p",":","/","/","x",".","c","o","m","/","a","b","o","u","t">>

(***************************************************************************)
(* C21.  is_database_url(url) is true exactly when the lower-cased URL     *)
(* contains a token of the catalogue: what analyze_url shows for the URL   *)
(* typed is that, and it is true for http://x.com/view.php?id=5 and false  *)
(* for http://x.com/about.                                                 *)
(***************************************************************************)
C21_IndicatorInLowerCasedUrl ==
  \A k \in 1..Len(param_results) :
    /\ param_results[k].is_db
         = (\E token \in IndicatorTokens : Occurs(token, Lower(param_results[k].url)))
    /\ param_results[k].url = ViewPhpUrl => param_results[k].is_db
    /\ param_results[k].url = AboutUrl => ~param_results[k].is_db

\* C21 witness: the URL analysed holds its only indicator in upper case and
\* is shown as a database URL
C21_Witness ==
  /\ param_results # <<>>
  /\ param_results[1].url = <<"h","t","t","p",":","/","/","x",".","c","o","m","/","A",".","P","H","P">>
  /\ param_results[1].is_db
  /\ database_urls = <<param_results[1].url>>

\* the pieces name=value of the query string of url, in order
QueryPieces(url) ==
  SelectSeq(Split(urlsplit(url).query, <<"&">>), LAMBDA piece : Contains(piece, <<"=">>))

\* the values the pieces give to name, in order of occurrence
ValuesGiven(pieces, name) ==
  LET RECURSIVE From(_)
      From(k) == IF k > Len(pieces) THEN <<>>
                 ELSE (IF Partition(pieces[k], "=").before = name
                       THEN <<Partition(pieces[k], "=").after>> ELSE <<>>)
                      \o From(k + 1)
  IN  From(1)

\* parameters maps name to the scalar value, or to the list of values
MapsTo(parameters, name, values) ==
  \E e \in 1..Len(parameters) :
    /\ parameters[e].key = name
    /\ parameters[e].value = values
    /\ parameters[e].scalar = (Len(values) = 1)

(***************************************************************************)
(* C22, as claimed: extract_parameters maps every parameter name that      *)
(* occurs once in the query string to its value as a scalar and every name *)
(* that occurs more than once to the list of its values in order; a        *)
(* malformed URL yields a result tagged as an error.                       *)
(***************************************************************************)
C22_AsClaimed ==
  \A k \in 1..Len(param_results) :
    IF urlsplit(param_results[k].url).bad
    THEN param_results[k].info.error
    ELSE /\ ~param_results[k].info.error
         /\ \A p \in 1..Len(QueryPieces(param_results[k].url)) :
              MapsTo(param_results[k].info.parameters,
                     Partition(QueryPieces(param_results[k].url)[p], "=").before,
                     ValuesGiven(QueryPieces(param_results[k].url),
                                 Partition(QueryPieces(param_results[k].url)[p], "=").before))

\* the patterns of the catalogue, in its order: each a name followed by =\d+
SqlCatalogue ==
  << <<"i","d">>, <<"p","a","g","e">>, <<"c","a","t">>, <<"i","t","e","m">>,
     <<"a","r","t","i","c","l","e">>, <<"p","r","o","d","u","c","t">> >>

PatternOf(name) == name \o <<"=", "\\", "d", "+">>

\* name=digits occurs in url: the name, "=" and at least one digit
HasNameDigits(name, url) ==
  \E i \in 1..Len(url) : \E j \in i..Len(url) :
    /\ j - i = Len(name) + 1
    /\ SubSeq(url, i, j - 1) = name \o <<"=">>
    /\ url[j] \in Digits

\* the positions of the catalogue whose pattern is in found
CataloguePositions(found) ==
  [k \in 1..Len(found) |->
     CHOOSE c \in 0..Len(SqlCatalogue) :
       IF \E m \in 1..Len(SqlCatalogue) : PatternOf(SqlCatalogue[m]) = found[k]
       THEN c # 0 /\ PatternOf(SqlCatalogue[c]) = found[k]
       ELSE c = 0]

(***************************************************************************)
(* C23.  extract_sql_patterns returns exactly the patterns of the          *)
(* catalogue that match the URL, in catalogue order: every pattern shown   *)
(* is one of the catalogue, a pattern of the catalogue is shown exactly    *)
(* when name=digits occurs in the URL, the patterns shown stand in         *)
(* strictly increasing catalogue position, and nothing is shown when none  *)
(* matches.                                                                *)
(***************************************************************************)
C23_MatchingPatternsInOrder ==
  \A k \in 1..Len(param_results) :
    /\ \A c \in 1..Len(SqlCatalogue) :
         HasNameDigits(SqlCatalogue[c], param_results[k].url)
           <=> \E m \in 1..Len(param_results[k].sql_patterns) :
                 param_results[k].sql_patterns[m] = PatternOf(SqlCatalogue[c])
    /\ \A m \in 1..Len(param_results[k].sql_patterns) :
         CataloguePositions(param_results[k].sql_patterns)[m] # 0
    /\ \A m \in 1..(Len(param_results[k].sql_patterns) - 1) :
         CataloguePositions(param_results[k].sql_patterns)[m]
           < CataloguePositions(param_results[k].sql_patterns)[m + 1]

\* C23 witness: the URL names product before id; the patterns shown are
\* those of id and product, in catalogue order
C23_Witness ==
  /\ param_results # <<>>
  /\ param_results[1].url =
       <<"h","t","t","p",":","/","/","x",".","c","o","m","/","a","?",
         "p","r","o","d","u","c","t","=","1","&","i","d","=","2">>
  /\ param_results[1].sql_patterns =
       << <<"i","d","=","\\","d","+">>,
          <<"p","r","o","d","u","c","t","=","\\","d","+">> >>

(***************************************************************************)
(* C28.  Every URL for which extract_sql_patterns returns a non-empty list *)
(* is classified database-like: whenever the analysis shows a pattern it   *)
(* shows the URL as a database URL.                                        *)
(***************************************************************************)
C28_SqlPatternImpliesDatabaseUrl ==
  \A k \in 1..Len(param_results) :
    param_results[k].sql_patterns # <<>> => param_results[k].is_db

\* C28 witness: a URL without script extension matches two patterns and is
\* shown as a database URL
C28_Witness ==
  /\ param_results # <<>>
  /\ Len(param_results[1].sql_patterns) = 2
  /\ ~\E c \in 1..4 : Occurs(db_indicators[c], Lower(param_results[1].url))
  /\ param_results[1].is_db

\* the percent-decoded redirect targets of the anchors of a page whose href
\* holds the wrapper, in document order
RECURSIVE RedirectTargets(_)
RedirectTargets(hrefs) ==
  IF hrefs = <<>> THEN <<>>
  ELSE (IF Occurs(Wrapper, Head(hrefs)) THEN <<WrappedTarget(Head(hrefs))>> ELSE <<>>)
       \o RedirectTargets(Tail(hrefs))

\* the first n elements of s
FirstN(s, n) == SubSeq(s, 1, Min2(n, Len(s)))

(***************************************************************************)
(* C24, as claimed: the k-th result of a run whose k-th fetch succeeded    *)
(* carries, in document order, the redirect targets of the page that are   *)
(* http or https URLs, cut to the first max_results; an empty page gives   *)
(* the empty list.                                                         *)
(***************************************************************************)
C24_AsClaimed ==
  \A t \in Runs : \A k \in 1..Len(Results(t)) :
    (k - 1) \notin hist[t].failed
    => Results(t)[k].args[1].urls
         = FirstN(SelectSeq(RedirectTargets(hist[t].pages[k]),
                            LAMBDA target : IsHttpUrl(urlsplit(target))),
                  threads[t].max_results)

(***************************************************************************)
(* Searches whose fetches and sleeps return: a thread that can take a step *)
(* of run() eventually takes it.  The window does what it likes; the       *)
(* delays are drawn from the whole range of the model.                     *)
(***************************************************************************)
NextLive ==
  \/ \E ds \in ParsedDorkLists : load_dorks(ds)
  \/ \E min_delay \in MinDelays, max_delay \in MaxDelays :
       /\ Len(threads) < MaxRuns
       /\ start_search("", FALSE, <<>>, MaxCap, min_delay, max_delay)
  \/ stop_search
  \/ on_search_progress
  \/ on_search_result
  \/ on_search_finished
  \/ on_search_error
  \/ \E t \in Runs : LoopTop(t)
  \/ \E t \in Runs, outcome \in RotationOutcomes : FetchReturns(t, outcome)
  \/ \E t \in Runs : Tick(t)
  \/ \E t \in Runs : Wake(t)
  \/ \E t \in Runs : RunRaises(t)

\* the scheduler runs the thread, requests.get returns, time passes
Returns ==
  /\ WF_vars(\E t \in Runs : LoopTop(t))
  /\ WF_vars(\E t \in Runs, outcome \in RotationOutcomes : FetchReturns(t, outcome))
  /\ WF_vars(\E t \in Runs : Tick(t))
  /\ WF_vars(\E t \in Runs : Wake(t))

SpecLive == Init /\ [][NextLive]_vars /\ Returns

\* where run() of thread t stands once stop() has been called: it has not
\* gone beyond the fetch and the delay of the query it was at
WithinOneQueryOfStop(t) ==
  /\ threads[t].idx <= hist[t].stopAt.idx + 1
  /\ hist[t].stopAt.pc = "loop" => threads[t].idx = hist[t].stopAt.idx
  /\ Len(Results(t)) <= hist[t].stopAt.results + 1
  /\ hist[t].stopAt.pc # "fetch" => Len(Results(t)) = hist[t].stopAt.results

(***************************************************************************)
(* C25.  A started run eventually emits a terminal event.  A run that      *)
(* nobody stops and that raises no exception ends with finished after a    *)
(* result for every dork of its list; a run that is stopped goes on for at *)
(* most the fetch and the delay of the query it was at.                    *)
(***************************************************************************)
C25_RunTerminates ==
  /\ [](\A t \in Runs :
          /\ (Returned(t) /\ hist[t].stops = 0 /\ ~hist[t].faulted)
             => /\ Terminals(t) = <<finished_signal>>
                /\ Len(Results(t)) = Len(threads[t].dorks)
          /\ hist[t].stops > 0 => WithinOneQueryOfStop(t))
  /\ \A t \in 1..MaxRuns : (t \in Runs) ~> (t \in Runs /\ Terminals(t) # <<>>)

\* C25 witness: stopped during the fetch of the first of two queries, the
\* run emitted that query's result, slept once and ended with finished
C25_Witness ==
  \E t \in Runs :
    /\ Len(threads[t].dorks) = 2
    /\ hist[t].stopAt.pc = "fetch" /\ hist[t].stopAt.idx = 0
    /\ Len(Results(t)) = 1
    /\ hist[t].sleeps = 1
    /\ Terminals(t) = <<finished_signal>>

(***************************************************************************)
(* C26.  A stop request is never lost and never leaks between runs.  A     *)
(* thread is created with running true; in every step the flag of a thread *)
(* changes only from true to false, and only in a stop_search that reaches *)
(* that very thread; a thread whose flag is false begins no further query: *)
(* its next pass through the head of the loop ends the run.                *)
(***************************************************************************)
C26_StopIsKeptAndOwn ==
  [][/\ \A t \in 1..Len(threads') :
          IF t \in Runs
          THEN /\ threads'[t].running # threads[t].running
                  => /\ threads[t].running /\ ~threads'[t].running
                     /\ search_thread = t
                     /\ hist'[t].stops = hist[t].stops + 1
               /\ (~threads[t].running /\ threads[t].pc = "loop"
                   /\ threads'[t].pc # "loop")
                  => /\ threads'[t].pc = "done"
                     /\ Len(hist'[t].requests) = Len(hist[t].requests)
          ELSE threads'[t].running /\ hist'[t].stops = 0
     ]_vars

\* C26 witness: the first run was stopped; the second, started afterwards,
\* runs with its own flag and has sent a request
C26_Witness ==
  /\ Len(threads) = 2
  /\ ~threads[1].running /\ hist[1].stops > 0
  /\ threads[2].running /\ hist[2].stops = 0
  /\ Len(hist[2].requests) >= 1

(***************************************************************************)
(* The CLI menu: the two delay entries, the dorks file entry and the run.  *)
(***************************************************************************)
NextCli ==
  \/ \E answers \in AnswerLists :
       /\ Len(refused) < MaxRefused
       /\ set_minimum_delay(answers)
  \/ \E answers \in AnswerLists :
       /\ Len(refused) < MaxRefused
       /\ set_maximum_delay(answers)
  \/ set_dorks_file("dorks.txt")
  \/ /\ ~HasDorksFile(cli) \/ Len(cli.launched) < MaxCliRuns
     /\ Len(refused) < MaxRefused
     /\ run_pagodo

SpecCli == Init /\ [][NextCli]_vars

(***************************************************************************)
(* C27, as claimed: in every configuration run_pagodo has passed to the    *)
(* searcher the minimum delay is strictly less than the maximum delay.     *)
(***************************************************************************)
C27_AsClaimed ==
  \A k \in 1..Len(cli.launched) :
    cli.launched[k].minimum_delay < cli.launched[k].maximum_delay

\* the URLs of a list, as a set
UrlSet(urls) == {urls[k] : k \in 1..Len(urls)}

\* the indices at which a URL of urls stands for the first time
FirstOccurrences(urls) ==
  {k \in 1..Len(urls) : \A j \in 1..(k - 1) : urls[j] # urls[k]}

\* s is what remains of urls when all but the first occurrences are dropped
IsFirstOccurrencesOf(s, urls) ==
  /\ Len(s) = Cardinality(FirstOccurrences(urls))
  /\ \A i \in 1..Len(s) :
       \E k \in FirstOccurrences(urls) :
         /\ s[i] = urls[k]
         /\ Cardinality({j \in FirstOccurrences(urls) : j <= k}) = i

(***************************************************************************)
(* C29.  Every step of filter_database_urls leaves database_urls equal to  *)
(* its distinct elements in order of first occurrence, changes neither     *)
(* search_results nor the set of URLs present, and leaves a list that a    *)
(* second application would not change.                                    *)
(***************************************************************************)
C29_FilterKeepsFirstOccurrences ==
  [][filter_database_urls
     => /\ IsFirstOccurrencesOf(database_urls', database_urls)
        /\ NoDuplicates(database_urls')
        /\ UrlSet(database_urls') = UrlSet(database_urls)
        /\ search_results' = search_results
        /\ Len(FromKeys(database_urls', <<>>)) = Len(database_urls')]_vars

\* C29 witness: two result rows hold the same database URL, another URL was
\* analysed before them, and the filter has left each of the two URLs once
C29_Witness ==
  /\ Len(database_urls) = 2
  /\ NoDuplicates(database_urls)
  /\ Cardinality({r \in 1..Len(search_results) :
                    search_results[r].url = database_urls[2]}) >= 2
  /\ \A t \in Runs : Returned(t) /\ AllDelivered(t)

(***************************************************************************)
(* The PyQt5 window alone: its two start buttons, the worker each starts,  *)
(* the delivery of the worker's signal to its handler and to thread.quit,  *)
(* and the deletion of the finished thread.                                *)
(***************************************************************************)
NextQt5 ==
  \/ \E exists \in BOOLEAN, min_delay \in Qt5Delays, max_delay \in Qt5Delays :
       /\ Len(qt5.started) < MaxQt5Workers
       /\ Len(refused) < MaxRefused
       /\ qt5_start_search(exists, min_delay, max_delay)
  \/ /\ Len(qt5.started) < MaxQt5Workers
     /\ Len(refused) < MaxRefused
     /\ qt5_start_scrape
  \/ Qt5WorkerReturns
  \/ Qt5Handler
  \/ Qt5ThreadQuits
  \/ Qt5ThreadDeleted

SpecQt5 == Init /\ [][NextQt5]_vars

\* a worker is active from its start until the handler of its signal has run
Qt5WorkerActive == qt5.worker = "run" \/ qt5.slot_pending

\* every worker whose run has returned emitted one signal, finished or failed
OneSignalEach ==
  /\ Len(qt5.signals) = Len(qt5.started) - (IF qt5.worker = "run" THEN 1 ELSE 0)
  /\ \A k \in 1..Len(qt5.signals) : qt5.signals[k] \in {"finished", "failed"}

\* this step starts a worker
Qt5Starts == Len(qt5'.started) = Len(qt5.started) + 1

\* the configuration the newest search was started with
Qt5NewestConfig == qt5'.launched[Len(qt5'.launched)]

(***************************************************************************)
(* C30: in the PyQt5 window the busy state holds exactly while a worker is *)
(* active.  In every state the buttons are disabled if and only if a       *)
(* worker runs or its signal still waits for its handler, and every worker *)
(* that returned emitted exactly one signal, finished or failed.  In every *)
(* step: a worker is started only while no thread is running, a search     *)
(* only with an existing dork file and min delay <= max delay, and the     *)
(* start sets the busy state; the busy state is set by nothing but a       *)
(* start, and cleared by nothing but the handler of the signal the running *)
(* worker emitted.                                                         *)
(***************************************************************************)
C30_BusyWhileWorkerActive ==
  /\ [](qt5.busy <=> Qt5WorkerActive)
  /\ []OneSignalEach
  /\ [][/\ Qt5Starts =>
             /\ ~qt5.running
             /\ ~qt5.busy /\ qt5'.busy
             /\ qt5'.started[Len(qt5'.started)] = "search" =>
                  /\ Len(qt5'.launched) = Len(qt5.launched) + 1
                  /\ Qt5NewestConfig.exists
                  /\ Qt5NewestConfig.min_delay <= Qt5NewestConfig.max_delay
        /\ (~qt5.busy /\ qt5'.busy) => Qt5Starts
        /\ (qt5.busy /\ ~qt5'.busy) =>
             /\ Len(qt5.signals) = Len(qt5.started)
             /\ qt5'.handled =
                  Append(qt5.handled,
                         Qt5HandlerOf(qt5.started[Len(qt5.started)],
                                      qt5.signals[Len(qt5.signals)]))
             /\ Len(qt5'.handled) = Len(qt5.started)]_vars

\* C30 witness: a scrape that failed and then a search that finished, both
\* handled, after a click that was turned down because the first thread
\* was still running
C30_Witness ==
  /\ qt5.started = <<"scrape", "search">>
  /\ qt5.signals = <<"failed", "finished">>
  /\ qt5.handled = <<"scrape_failed", "search_complete">>
  /\ ~qt5.busy
  /\ \E k \in 1..Len(refused) : refused[k] = TaskInProgress

====
